---- MODULE Spec2Model ----
(***************************************************************************)
(* A model of WebReconciler.Reconcile (internal/controller/                *)
(* web_controller.go) running against the cluster store: the Web           *)
(* resources, the ConfigMaps and Deployments derived from them, the        *)
(* store's garbage collector and the work queue that invokes Reconcile.    *)
(* Every store call of a pass is one atomic step; the local computation    *)
(* that follows a call belongs to the same step.                           *)
(*                                                                         *)
(*   Spec      one worker, every writer (user, collector, other writers)   *)
(*   RaceSpec  two workers on one Web                                      *)
(*   FairSpec  one worker, the user and the collector, with fairness       *)
(***************************************************************************)
EXTENDS Naturals, Sequences, FiniteSets, TLC

\* ------------------------------------------------------------------ bounds
MaxUid == 2
MaxFaults == 2

Workers == {1, 2}
Solo == {1}
Namespaces == {"ns"}
WebNames == {"x", "xdeployment", "x-cm"}
OneWeb == {[namespace |-> "ns", name |-> "x"]}
Html == {"h1", "h2"}
Images == {"i1", "i2"}
Sizes == {1, 2}
Ports == {80, 8080}
Causes == {"Unavailable"}

\* ------------------------------------------------------------- data shapes
NoObj == [kind |-> "none"]
NoOwner == [name |-> "", uid |-> 0]
NoKey == [namespace |-> "", name |-> ""]
\* error values: nil, the two the code tells apart, and every other failure
Nil == [op |-> "", cause |-> "nil"]
NotFound == [op |-> "", cause |-> "NotFound"]
AlreadyExists == [op |-> "", cause |-> "AlreadyExists"]
Running == [op |-> "", cause |-> "running"]

Key(ns, n) == [namespace |-> ns, name |-> n]

CMName(n) == n \o "-cm"
\* a slip: every Deployment gets the one name
DepNameShared(n) == "x" \o "deployment"

DepName(n) == n \o "deployment"

\* the keys of the dependents of the Web (or identifier) w
CMKeyOf(w) == Key(w.namespace, CMName(w.name))
DepKeyOf(w) == Key(w.namespace, DepName(w.name))

WebKeys == {Key(ns, n) : ns \in Namespaces, n \in WebNames}
CMKeys == {Key(k.namespace, CMName(k.name)) : k \in WebKeys}
DepKeys == {Key(k.namespace, DepName(k.name)) : k \in WebKeys}

\* a Web as the user first writes it: one replica on port 80
Web(k, uid, html, image) ==
    [kind |-> "Web", name |-> k.name, namespace |-> k.namespace, uid |-> uid,
     htmlContent |-> html, image |-> image, size |-> 1, containerPort |-> 80]

EmptyCM == [kind |-> "ConfigMap", name |-> "", namespace |-> "",
            data |-> <<>>, owner |-> NoOwner]
EmptyDep == [kind |-> "Deployment", name |-> "", namespace |-> "",
             selector |-> <<>>, labels |-> <<>>, containers |-> <<>>,
             volumes |-> <<>>, owner |-> NoOwner]

\* one container of a pod template, with its one volume mount
Container(name, image, mountName, mountPath) ==
    [name |-> name, image |-> image,
     volumeMounts |-> <<[name |-> mountName, mountPath |-> mountPath]>>]

\* a volume whose source is the ConfigMap named cmName
ConfigMapVolume(name, cmName) == [name |-> name, configMap |-> cmName]

\* ctrl.Result{} with the error returned beside it
Result(err) == [requeue |-> FALSE, requeueAfter |-> 0, err |-> err]
NoResult == [requeue |-> FALSE, requeueAfter |-> 0, err |-> Running]

StoreErr(op, cause) == [op |-> op, cause |-> cause]

IsNotFound(err) == err = NotFound
IsAlreadyExists(err) == err = AlreadyExists
IgnoreNotFound(err) == IF IsNotFound(err) THEN Nil ELSE err

\* ------------------------------------------------------------------- state
VARIABLES
    webs,       \* the store's Web resources, by key
    cms,        \* the store's ConfigMaps, by key
    deps,       \* the store's Deployments, by key
    nextUid,    \* the uid the store gives the next Web
    faults,     \* failures injected so far
    pending,    \* the work queue: identifiers waiting for a pass
    pc,         \* each worker's position in Reconcile
    req,        \* each worker's req.NamespacedName
    web,        \* each worker's local `web`
    cm,         \* each worker's local `cm`
    dep,        \* each worker's local `dep` of the creating branch
    res,        \* what each worker's pass returned
    calls,      \* the client calls each worker's pass has issued
    prev,       \* each worker's last pass, while nothing else has written since
    quiet       \* nothing else has written since the worker's pass started

store == <<webs, cms, deps, nextUid>>
locals == <<pc, req, web, cm, dep, res, calls>>
vars == <<webs, cms, deps, nextUid, faults, pending, pc, req, web, cm, dep,
          res, calls, prev, quiet>>

Call(op, kind, key, obj, r) ==
    [op |-> op, kind |-> kind, key |-> key, obj |-> obj, r |-> r]

NoPrev == [n |-> 0, clean |-> FALSE, partial |-> FALSE, resumed |-> FALSE]

\* ------------------------------------------------------- the desired state
\* a slip: the entry is keyed by the name of the Web
NewCMKeyedByName(w) ==
    [kind |-> "ConfigMap", name |-> CMName(w.name), namespace |-> w.namespace,
     data |-> <<w.name, w.htmlContent>>, owner |-> NoOwner]

NewCM(w) ==
    [kind |-> "ConfigMap", name |-> CMName(w.name), namespace |-> w.namespace,
     data |-> <<"index.html", w.htmlContent>>, owner |-> NoOwner]

\* a slip: the volume names the Web instead of its ConfigMap
NewDepVolumeOfWeb(w, c) ==
    [kind |-> "Deployment", name |-> DepName(w.name), namespace |-> w.namespace,
     selector |-> <<"app", w.name>>, labels |-> <<"app", w.name>>,
     containers |-> <<Container("web-container", w.image, "html", "/app")>>,
     volumes |-> <<ConfigMapVolume("html", w.name)>>, owner |-> NoOwner]

\* a slip: the replica count of the Web is carried into the Deployment
NewDepWithReplicas(w, c) ==
    [kind |-> "Deployment", name |-> DepName(w.name), namespace |-> w.namespace,
     selector |-> <<"app", w.name>>, labels |-> <<"app", w.name>>,
     containers |-> <<Container("web-container", w.image, "html", "/app")>>,
     volumes |-> <<ConfigMapVolume("html", c.name)>>, owner |-> NoOwner,
     replicas |-> w.size]

NewDep(w, c) ==
    [kind |-> "Deployment", name |-> DepName(w.name), namespace |-> w.namespace,
     selector |-> <<"app", w.name>>, labels |-> <<"app", w.name>>,
     containers |-> <<Container("web-container", w.image, "html", "/app")>>,
     volumes |-> <<ConfigMapVolume("html", c.name)>>, owner |-> NoOwner]

\* a slip: the owner reference is not set
SetControllerReferenceDropped(w, obj) == obj

\* ctrl.SetControllerReference(&web, obj, r.Scheme), when it succeeds
SetControllerReference(w, obj) ==
    [obj EXCEPT !.owner = [name |-> w.name, uid |-> w.uid]]

OwnerKey(obj) == Key(obj.namespace, obj.owner.name)

\* the identifier the Owns() watch enqueues for a change of obj
Enqueue(obj) == IF obj.owner = NoOwner THEN {} ELSE {OwnerKey(obj)} \cap WebKeys

\* ------------------------------------------------------------ the store
Present(tbl, k) == k \in DOMAIN tbl /\ tbl[k] # NoObj

CanFail == faults < MaxFaults

IsFault(err) == err \notin {Nil, NotFound, AlreadyExists}

Failures(op) == IF CanFail THEN {StoreErr(op, c) : c \in Causes} ELSE {}

\* what r.Get can answer for key k of table tbl
GetOutcomes(tbl, k, op) ==
    (IF Present(tbl, k) THEN {Nil} ELSE {NotFound}) \cup Failures(op)

\* what r.Create can answer for key k of table tbl
CreateOutcomes(tbl, k, op) ==
    (IF Present(tbl, k) THEN {AlreadyExists} ELSE {Nil}) \cup Failures(op)

\* what ctrl.SetControllerReference can answer
LinkOutcomes(op) ==
    {Nil} \cup (IF CanFail THEN {StoreErr(op, "NoKindRegistered")} ELSE {})

\* a slip: a create over an existing object replaces it
CreateOrReplace(tbl, obj, err) ==
    IF err \in {Nil, AlreadyExists}
      THEN (Key(obj.namespace, obj.name) :> obj) @@ tbl ELSE tbl

\* the table after r.Create(obj) answered err
Create(tbl, obj, err) ==
    IF err = Nil THEN (Key(obj.namespace, obj.name) :> obj) @@ tbl ELSE tbl

Counted(err) == IF IsFault(err) THEN faults + 1 ELSE faults

\* the scheduler queues the identifier again after an error
Requeue(k, err) == IF err # Nil THEN {k} ELSE {}

\* ------------------------------------------------------------------- Init
Init ==
    /\ webs = [k \in WebKeys |-> NoObj]
    /\ cms = [k \in CMKeys |-> NoObj]
    /\ deps = [k \in DepKeys |-> NoObj]
    /\ nextUid = 1
    /\ faults = 0
    /\ pending = {}
    /\ pc = [p \in Workers |-> "idle"]
    /\ req = [p \in Workers |-> NoKey]
    /\ web = [p \in Workers |-> NoObj]
    /\ cm = [p \in Workers |-> EmptyCM]
    /\ dep = [p \in Workers |-> EmptyDep]
    /\ res = [p \in Workers |-> NoResult]
    /\ calls = [p \in Workers |-> <<>>]
    /\ prev = [p \in Workers |-> NoPrev]
    /\ quiet = [p \in Workers |-> FALSE]

\* --------------------------------------------------------- Reconcile steps
HadFault(log) == \E j \in 1..Len(log) : IsFault(log[j].r)

CreatesOf(log) == {j \in 1..Len(log) : log[j].op = "Create"}

\* the pass created the ConfigMap and then failed
Partial(log) ==
    /\ HadFault(log)
    /\ \E j \in CreatesOf(log) : log[j].kind = "ConfigMap" /\ log[j].r = Nil

\* the record of worker p's pass that returns now with result r and calls log
\* over the tables st:
\*   clean    no call failed and nobody else wrote during the pass
\*   n        the clean passes in succession for this identifier (up to 2)
\*   partial  the pass created the ConfigMap, failed before the Deployment
\*            existed, and nobody else wrote during the pass
\*   resumed  the pass had no failure and followed a partial one
Remember(p, r, log, st) ==
    LET clean == ~HadFault(log) /\ quiet[p]
        same == prev[p] # NoPrev /\ prev[p].key = req[p]
    IN [n |-> IF ~clean THEN 0 ELSE IF same /\ prev[p].clean THEN 2 ELSE 1,
        key |-> req[p], res |-> r, snap |-> st, clean |-> clean,
        partial |-> quiet[p] /\ Partial(log) /\ ~Present(st[3], DepKeyOf(req[p])),
        resumed |-> clean /\ same /\ prev[p].partial]

\* what a write by anyone but worker p leaves of the records
Forget(p) == [q \in Workers |-> IF q = p THEN prev[q] ELSE NoPrev]
Disturb(p) == [q \in Workers |-> IF q = p THEN quiet[q] ELSE FALSE]

\* a slip: the step that failed is attempted again within the pass
ReturnRetried(p, err, log, wrote) ==
    /\ pc' = [pc EXCEPT ![p] = IF err = Nil THEN "done" ELSE pc[p]]
    /\ res' = [res EXCEPT ![p] = IF err = Nil THEN Result(err) ELSE res[p]]
    /\ calls' = [calls EXCEPT ![p] = log]
    /\ web' = [web EXCEPT ![p] = IF err = Nil THEN NoObj ELSE web[p]]
    /\ cm' = [cm EXCEPT ![p] = IF err = Nil THEN EmptyCM ELSE cm[p]]
    /\ dep' = [dep EXCEPT ![p] = IF err = Nil THEN EmptyDep ELSE dep[p]]
    /\ quiet' = [(IF wrote THEN Disturb(p) ELSE quiet) EXCEPT ![p] = FALSE]

\* the pass returns (ctrl.Result{}, err); its locals go out of scope
Return(p, err, log, wrote) ==
    /\ pc' = [pc EXCEPT ![p] = "done"]
    /\ res' = [res EXCEPT ![p] = Result(err)]
    /\ calls' = [calls EXCEPT ![p] = log]
    /\ web' = [web EXCEPT ![p] = NoObj]
    /\ cm' = [cm EXCEPT ![p] = EmptyCM]
    /\ dep' = [dep EXCEPT ![p] = EmptyDep]
    /\ quiet' = [(IF wrote THEN Disturb(p) ELSE quiet) EXCEPT ![p] = FALSE]

\* a slip: the ConfigMap is passed over once the Web is fetched
GotoSkipping(p, label, log) ==
    /\ pc' = [pc EXCEPT ![p] = IF label = "GetCM" THEN "GetDep" ELSE label]
    /\ calls' = [calls EXCEPT ![p] = log]
    /\ UNCHANGED res

Goto(p, label, log) ==
    /\ pc' = [pc EXCEPT ![p] = label]
    /\ calls' = [calls EXCEPT ![p] = log]
    /\ UNCHANGED res

\* the scheduler hands a queued identifier to a worker
StartPass(p, k) ==
    /\ pc[p] \in {"idle", "done"}
    /\ k \in pending
    /\ pending' = pending \ {k}
    /\ pc' = [pc EXCEPT ![p] = "GetWeb"]
    /\ req' = [req EXCEPT ![p] = k]
    /\ web' = [web EXCEPT ![p] = NoObj]
    /\ cm' = [cm EXCEPT ![p] = EmptyCM]
    /\ dep' = [dep EXCEPT ![p] = EmptyDep]
    /\ res' = [res EXCEPT ![p] = NoResult]
    /\ calls' = [calls EXCEPT ![p] = <<>>]
    /\ quiet' = [quiet EXCEPT ![p] = TRUE]
    /\ UNCHANGED <<store, faults, prev>>

\* a slip: the absence of the Web is surfaced as the error
WebGetReturnSurfaced(err) == err

\* lines 63-70: what the pass returns when fetching the Web answered err # nil
WebGetReturn(err) == IF IsNotFound(err) THEN Nil ELSE IgnoreNotFound(err)

\* a slip: the dependent is created whatever the fetch answered
MissingAlways(err) == TRUE

\* a slip: == for != in the test of the fetch
MissingNever(err) == err = Nil /\ IsNotFound(err)

\* line 74 and line 101: the dependent is to be created
Missing(err) == err # Nil /\ IsNotFound(err)

\* a slip: a failed fetch of a dependent is not looked at
GetFailedIgnored(err) == FALSE

\* line 94 and line 155: the fetch of the dependent failed
GetFailed(err) == err # Nil

\* a slip: AlreadyExists is not let through
CreateFailedStrict(err) == err # Nil

\* line 88 and line 150: the create failed
CreateFailed(err) == err # Nil /\ ~IsAlreadyExists(err)

GetWeb(p) ==
    /\ pc[p] = "GetWeb"
    /\ \E err \in GetOutcomes(webs, req[p], "GetWeb") :
          LET got == IF err = Nil THEN webs[req[p]] ELSE NoObj
              log == Append(calls[p], Call("Get", "Web", req[p], got, err))
          IN
          /\ faults' = Counted(err)
          /\ IF err # Nil
                THEN /\ Return(p, WebGetReturn(err), log, FALSE)
                     /\ pending' = pending \cup Requeue(req[p], WebGetReturn(err))
                     /\ prev' = [prev EXCEPT ![p] =
                            Remember(p, Result(WebGetReturn(err)), log,
                                     <<webs, cms, deps>>)]
                ELSE /\ web' = [web EXCEPT ![p] = webs[req[p]]]
                     /\ Goto(p, "GetCM", log)
                     /\ UNCHANGED <<pending, cm, dep, prev, quiet>>
    /\ UNCHANGED <<store, req>>

GetCM(p) ==
    /\ pc[p] = "GetCM"
    /\ LET k == CMKeyOf(web[p]) IN
       \E err_cm \in GetOutcomes(cms, k, "GetCM") :
          LET log == Append(calls[p], Call("Get", "ConfigMap", k, NoObj, err_cm)) IN
          IF Missing(err_cm)
            THEN \E err \in LinkOutcomes("SetOwnerCM") :
                   LET new == IF err = Nil
                                THEN SetControllerReference(web[p], NewCM(web[p]))
                                ELSE NewCM(web[p])
                       log2 == Append(log, Call("SetOwner", "ConfigMap", k, new, err))
                   IN
                   /\ faults' = Counted(err)
                   /\ IF err # Nil
                         THEN /\ Return(p, err, log2, FALSE)
                              /\ pending' = pending \cup Requeue(req[p], err)
                              /\ prev' = [prev EXCEPT ![p] = NoPrev]
                         ELSE /\ cm' = [cm EXCEPT ![p] = new]
                              /\ Goto(p, "CreateCM", log2)
                              /\ UNCHANGED <<pending, web, dep, prev, quiet>>
            ELSE /\ faults' = Counted(err_cm)
                 /\ IF GetFailed(err_cm)
                       THEN /\ Return(p, err_cm, log, FALSE)
                            /\ pending' = pending \cup Requeue(req[p], err_cm)
                            /\ prev' = [prev EXCEPT ![p] =
                                   Remember(p, Result(err_cm), log, <<webs, cms, deps>>)]
                       ELSE /\ cm' = [cm EXCEPT ![p] =
                                        IF err_cm = Nil THEN cms[k] ELSE EmptyCM]
                            /\ Goto(p, "GetDep", log)
                            /\ UNCHANGED <<pending, web, dep, prev, quiet>>
    /\ UNCHANGED <<store, req>>

CreateCM(p) ==
    /\ pc[p] = "CreateCM"
    /\ LET k == Key(cm[p].namespace, cm[p].name) IN
       \E err \in CreateOutcomes(cms, k, "CreateCM") :
          LET log == Append(calls[p], Call("Create", "ConfigMap", k, cm[p], err)) IN
          /\ faults' = Counted(err)
          /\ cms' = Create(cms, cm[p], err)
          /\ IF CreateFailed(err)
                THEN /\ Return(p, err, log, FALSE)
                     /\ pending' = pending \cup Requeue(req[p], err)
                     /\ prev' = [prev EXCEPT ![p] =
                            Remember(p, Result(err), log, <<webs, cms', deps>>)]
                ELSE /\ Goto(p, "GetDep", log)
                     /\ pending' = pending \cup
                            (IF err = Nil THEN Enqueue(cm[p]) ELSE {})
                     /\ prev' = IF cms' = cms THEN prev ELSE Forget(p)
                     /\ quiet' = IF cms' = cms THEN quiet ELSE Disturb(p)
                     /\ UNCHANGED <<web, cm, dep>>
    /\ UNCHANGED <<webs, deps, nextUid, req>>

GetDep(p) ==
    /\ pc[p] = "GetDep"
    /\ LET k == DepKeyOf(web[p]) IN
       \E err_dep \in GetOutcomes(deps, k, "GetDep") :
          LET log == Append(calls[p], Call("Get", "Deployment", k, NoObj, err_dep)) IN
          IF Missing(err_dep)
            THEN \E err \in LinkOutcomes("SetOwnerDep") :
                   LET new == IF err = Nil
                                THEN SetControllerReference(web[p], NewDep(web[p], cm[p]))
                                ELSE NewDep(web[p], cm[p])
                       log2 == Append(log, Call("SetOwner", "Deployment", k, new, err))
                   IN
                   /\ faults' = Counted(err)
                   /\ IF err # Nil
                         THEN /\ Return(p, err, log2, FALSE)
                              /\ pending' = pending \cup Requeue(req[p], err)
                              /\ prev' = [prev EXCEPT ![p] = NoPrev]
                         ELSE /\ dep' = [dep EXCEPT ![p] = new]
                              /\ Goto(p, "CreateDep", log2)
                              /\ UNCHANGED <<pending, web, cm, prev, quiet>>
            ELSE /\ faults' = Counted(err_dep)
                 /\ LET err == IF GetFailed(err_dep) THEN err_dep ELSE Nil IN
                    /\ Return(p, err, log, FALSE)
                    /\ pending' = pending \cup Requeue(req[p], err)
                    /\ prev' = [prev EXCEPT ![p] =
                           Remember(p, Result(err), log, <<webs, cms, deps>>)]
    /\ UNCHANGED <<store, req>>

CreateDep(p) ==
    /\ pc[p] = "CreateDep"
    /\ LET k == Key(dep[p].namespace, dep[p].name) IN
       \E err \in CreateOutcomes(deps, k, "CreateDep") :
          LET log == Append(calls[p], Call("Create", "Deployment", k, dep[p], err))
              ret == IF CreateFailed(err) THEN err ELSE Nil
          IN
          /\ faults' = Counted(err)
          /\ deps' = Create(deps, dep[p], err)
          /\ Return(p, ret, log, deps' # deps)
          /\ pending' = pending \cup Requeue(req[p], ret) \cup
                            (IF err = Nil THEN Enqueue(dep[p]) ELSE {})
          /\ prev' = [(IF deps' = deps THEN prev ELSE Forget(p)) EXCEPT ![p] =
                            Remember(p, Result(ret), log, <<webs, cms, deps'>>)]
    /\ UNCHANGED <<webs, cms, nextUid, req>>

Reconcile(p) ==
    \/ GetWeb(p)
    \/ GetCM(p)
    \/ CreateCM(p)
    \/ GetDep(p)
    \/ CreateDep(p)

\* ------------------------------------------------- the user and the store
Nobody == 0

UserCreateWeb(k, h, i) ==
    /\ ~Present(webs, k)
    /\ nextUid <= MaxUid
    /\ webs' = [webs EXCEPT ![k] = Web(k, nextUid, h, i)]
    /\ nextUid' = nextUid + 1
    /\ pending' = pending \cup {k}
    /\ prev' = Forget(Nobody)
    /\ quiet' = Disturb(Nobody)
    /\ UNCHANGED <<cms, deps, faults, pc, req, web, cm, dep, res, calls>>

UserUpdateWeb(k, h, i) ==
    /\ Present(webs, k)
    /\ <<h, i>> # <<webs[k].htmlContent, webs[k].image>>
    /\ webs' = [webs EXCEPT ![k].htmlContent = h, ![k].image = i]
    /\ pending' = pending \cup {k}
    /\ prev' = Forget(Nobody)
    /\ quiet' = Disturb(Nobody)
    /\ UNCHANGED <<cms, deps, nextUid, faults, pc, req, web, cm, dep, res, calls>>

\* the user changes the replica count and the port of the Web
UserScaleWeb(k, n, port) ==
    /\ Present(webs, k)
    /\ <<n, port>> # <<webs[k].size, webs[k].containerPort>>
    /\ webs' = [webs EXCEPT ![k].size = n, ![k].containerPort = port]
    /\ pending' = pending \cup {k}
    /\ prev' = Forget(Nobody)
    /\ quiet' = Disturb(Nobody)
    /\ UNCHANGED <<cms, deps, nextUid, faults, pc, req, web, cm, dep, res, calls>>

UserDeleteWeb(k) ==
    /\ Present(webs, k)
    /\ webs' = [webs EXCEPT ![k] = NoObj]
    /\ pending' = pending \cup {k}
    /\ prev' = Forget(Nobody)
    /\ quiet' = Disturb(Nobody)
    /\ UNCHANGED <<cms, deps, nextUid, faults, pc, req, web, cm, dep, res, calls>>

\* the owner reference of obj names no live Web
Orphan(obj) ==
    /\ obj # NoObj
    /\ obj.owner # NoOwner
    /\ IF Present(webs, OwnerKey(obj))
         THEN webs[OwnerKey(obj)].uid # obj.owner.uid
         ELSE TRUE

\* the store's garbage collector removes an object whose owner is gone
CollectCM(k) ==
    /\ Orphan(cms[k])
    /\ cms' = [cms EXCEPT ![k] = NoObj]
    /\ pending' = pending \cup Enqueue(cms[k])
    /\ prev' = Forget(Nobody)
    /\ quiet' = Disturb(Nobody)
    /\ UNCHANGED <<webs, deps, nextUid, faults, pc, req, web, cm, dep, res, calls>>

CollectDep(k) ==
    /\ Orphan(deps[k])
    /\ deps' = [deps EXCEPT ![k] = NoObj]
    /\ pending' = pending \cup Enqueue(deps[k])
    /\ prev' = Forget(Nobody)
    /\ quiet' = Disturb(Nobody)
    /\ UNCHANGED <<webs, cms, nextUid, faults, pc, req, web, cm, dep, res, calls>>

\* objects another writer puts under the derived names, owned by no Web
OtherCM(k) ==
    [kind |-> "ConfigMap", name |-> k.name, namespace |-> k.namespace,
     data |-> <<"other", "other">>, owner |-> NoOwner]

OtherDep(k) ==
    [kind |-> "Deployment", name |-> k.name, namespace |-> k.namespace,
     selector |-> <<"app", "other">>, labels |-> <<"app", "other">>,
     containers |-> <<Container("other", "other", "other", "/other")>>,
     volumes |-> <<ConfigMapVolume("other", "other")>>, owner |-> NoOwner]

OtherCreateCM(k) ==
    /\ ~Present(cms, k)
    /\ cms' = [cms EXCEPT ![k] = OtherCM(k)]
    /\ prev' = Forget(Nobody)
    /\ quiet' = Disturb(Nobody)
    /\ UNCHANGED <<webs, deps, nextUid, faults, pending, pc, req, web, cm, dep,
                   res, calls>>

OtherCreateDep(k) ==
    /\ ~Present(deps, k)
    /\ deps' = [deps EXCEPT ![k] = OtherDep(k)]
    /\ prev' = Forget(Nobody)
    /\ quiet' = Disturb(Nobody)
    /\ UNCHANGED <<webs, cms, nextUid, faults, pending, pc, req, web, cm, dep,
                   res, calls>>

OtherDeleteCM(k) ==
    /\ Present(cms, k)
    /\ cms' = [cms EXCEPT ![k] = NoObj]
    /\ pending' = pending \cup Enqueue(cms[k])
    /\ prev' = Forget(Nobody)
    /\ quiet' = Disturb(Nobody)
    /\ UNCHANGED <<webs, deps, nextUid, faults, pc, req, web, cm, dep, res, calls>>

OtherDeleteDep(k) ==
    /\ Present(deps, k)
    /\ deps' = [deps EXCEPT ![k] = NoObj]
    /\ pending' = pending \cup Enqueue(deps[k])
    /\ prev' = Forget(Nobody)
    /\ quiet' = Disturb(Nobody)
    /\ UNCHANGED <<webs, cms, nextUid, faults, pc, req, web, cm, dep, res, calls>>

\* the periodic resync lists the Webs that exist
Resync(k) ==
    /\ Present(webs, k)
    /\ k \notin pending
    /\ pending' = pending \cup {k}
    /\ UNCHANGED <<store, faults, locals, prev, quiet>>

OneCM == {CMKeyOf(k) : k \in OneWeb}
OneDep == {DepKeyOf(k) : k \in OneWeb}

\* one worker, one Web name, every writer
Next ==
    \/ \E p \in Solo, k \in OneWeb : StartPass(p, k)
    \/ \E p \in Solo : Reconcile(p)
    \/ \E k \in OneWeb, h \in Html, i \in Images : UserCreateWeb(k, h, i)
    \/ \E k \in OneWeb, h \in Html, i \in Images : UserUpdateWeb(k, h, i)
    \/ \E k \in OneWeb : UserDeleteWeb(k)
    \/ \E k \in OneCM : CollectCM(k)
    \/ \E k \in OneDep : CollectDep(k)
    \/ \E k \in OneCM : OtherCreateCM(k)
    \/ \E k \in OneDep : OtherCreateDep(k)
    \/ \E k \in OneCM : OtherDeleteCM(k)
    \/ \E k \in OneDep : OtherDeleteDep(k)
    \/ \E k \in OneWeb : Resync(k)

Spec == Init /\ [][Next]_vars

\* two workers on one Web that is created and listed again
NextRace ==
    \/ \E p \in Workers, k \in OneWeb : StartPass(p, k)
    \/ \E p \in Workers : Reconcile(p)
    \/ \E k \in OneWeb, h \in Html, i \in Images : UserCreateWeb(k, h, i)
    \/ \E k \in OneWeb : Resync(k)

RaceSpec == Init /\ [][NextRace]_vars

\* one worker and one Web name; the user, the reconciler and the garbage
\* collector are the only writers
NextFair ==
    \/ \E p \in Solo, k \in OneWeb : StartPass(p, k)
    \/ \E p \in Solo : Reconcile(p)
    \/ \E k \in OneWeb, h \in Html, i \in Images : UserCreateWeb(k, h, i)
    \/ \E k \in OneWeb, h \in Html, i \in Images : UserUpdateWeb(k, h, i)
    \/ \E k \in OneWeb : UserDeleteWeb(k)
    \/ \E k \in OneCM : CollectCM(k)
    \/ \E k \in OneDep : CollectDep(k)
    \/ \E k \in OneWeb : Resync(k)

\* the scheduler hands out what is queued, the store answers every call, and
\* the garbage collector gets to every orphan
Fairness ==
    /\ WF_vars(\E p \in Solo, k \in OneWeb : StartPass(p, k))
    /\ WF_vars(\E p \in Solo : Reconcile(p))
    /\ WF_vars(\E k \in OneCM : CollectCM(k))
    /\ WF_vars(\E k \in OneDep : CollectDep(k))

FairSpec == Init /\ [][NextFair]_vars /\ Fairness

\* two workers and the Webs x, xdeployment and x-cm of one namespace. The
\* work queue hands an identifier to one worker at a time; the workers being
\* alike, the passes for x are worker 1's and those for the two other Webs
\* worker 2's, so that a pass for x runs along a pass for either of them.
Assigned(p, k) == (p = 1) <=> (k.name = "x")

NextPair ==
    \/ \E p \in Workers, k \in WebKeys : Assigned(p, k) /\ StartPass(p, k)
    \/ \E p \in Workers : Reconcile(p)
    \/ \E k \in WebKeys : UserCreateWeb(k, "h1", "i1")

PairFairness ==
    /\ \A k \in WebKeys :
          WF_vars(\E p \in Workers : Assigned(p, k) /\ StartPass(p, k))
    /\ \A p \in Workers : WF_vars(Reconcile(p))

PairSpec == Init /\ [][NextPair]_vars /\ PairFairness

\* one worker and one Web whose replica count and port the user changes
NextSize ==
    \/ \E p \in Solo, k \in OneWeb : StartPass(p, k)
    \/ \E p \in Solo : Reconcile(p)
    \/ \E k \in OneWeb, h \in Html, i \in Images : UserCreateWeb(k, h, i)
    \/ \E k \in OneWeb, n \in Sizes, port \in Ports : UserScaleWeb(k, n, port)
    \/ \E k \in OneWeb : UserDeleteWeb(k)
    \/ \E k \in OneCM : CollectCM(k)
    \/ \E k \in OneDep : CollectDep(k)
    \/ \E k \in OneWeb : Resync(k)

SizeSpec == Init /\ [][NextSize]_vars

\* ----------------------------------------------------------------- claims
Returns(p) == pc[p] # "done" /\ pc'[p] = "done"
Last(log) == log[Len(log)]
Tables == <<webs, cms, deps>>

\* C1: a pass whose fetch of the Web answers NotFound returns the empty
\* result with a nil error after that one call, and leaves the store as it
\* was: it fetches and creates no dependent.
C1_AbsenceTolerance ==
    [][\A p \in Workers :
         (pc[p] = "GetWeb" /\ Returns(p) /\ Last(calls'[p]).r = NotFound)
           => /\ res'[p] = Result(Nil)
              /\ calls'[p] = <<Call("Get", "Web", req[p], NoObj, NotFound)>>
              /\ store' = store]_vars

C1_Witness ==
    \E p \in Workers :
        /\ pc[p] = "done"
        /\ Len(calls[p]) = 1
        /\ calls[p][1].r = NotFound
        /\ res[p] = Result(Nil)
        /\ Present(cms, CMKeyOf(req[p]))

\* C2: a pass that follows a pass for the same identifier, with no failed
\* call in either and no other write since the first one started, issues no
\* create, returns what the first returned and leaves the store as the
\* first left it.
C2_Idempotence ==
    [][\A p \in Workers :
         (Returns(p) /\ prev[p].clean /\ prev[p].key = req[p] /\ prev'[p].clean)
           => /\ CreatesOf(calls'[p]) = {}
              /\ res'[p] = prev[p].res
              /\ Tables' = prev[p].snap]_vars

C2_Witness ==
    \E p \in Workers :
        /\ pc[p] = "done"
        /\ prev[p].n = 2
        /\ Len(calls[p]) = 3
        /\ res[p] = Result(Nil)

\* the ConfigMap was created or seen by call i of the log
Established(log, i, kind) ==
    /\ log[i].kind = kind
    /\ \/ log[i].op = "Get" /\ log[i].r = Nil
       \/ log[i].op = "Create" /\ log[i].r \in {Nil, AlreadyExists}

\* C3: in every pass the create of the Deployment comes after a call of the
\* same pass that created the ConfigMap, got AlreadyExists for it or fetched
\* it, and the Deployment handed to the create names <name>-cm as the source
\* of its volume, whichever of the three it was.
C3_Ordering ==
    \A p \in Workers : \A j \in CreatesOf(calls[p]) :
        calls[p][j].kind = "Deployment"
          => /\ \E i \in 1..(j - 1) : Established(calls[p], i, "ConfigMap")
             /\ calls[p][j].obj.volumes[1].configMap = CMName(req[p].name)
             /\ calls[p][j].obj.volumes[1].configMap = CMKeyOf(calls[p][1].obj).name
             /\ calls[p][j].r = Nil =>
                    \A i \in CreatesOf(calls[p]) :
                        calls[p][i].kind = "ConfigMap" => i < j

C3_Witness ==
    \E p \in Workers :
        /\ pc[p] = "done"
        /\ res[p] = Result(Nil)
        /\ Len(calls[p]) = 7
        /\ \A j \in CreatesOf(calls[p]) : calls[p][j].r = Nil
        /\ deps[DepKeyOf(req[p])] = calls[p][7].obj
        /\ cms[CMKeyOf(req[p])] = calls[p][4].obj

TableOf(kind) == IF kind = "ConfigMap" THEN cms ELSE deps

\* C4: when two passes for one Web both attempt the create of a dependent
\* they both saw absent, and the store answers both, one create succeeds and
\* the other gets AlreadyExists; the store holds the object of the one that
\* succeeded; neither pass stops at that create, and a pass no call of which
\* failed returns a nil error.
C4_RaceTolerance ==
    \A p, q \in Workers : \A i \in CreatesOf(calls[p]), j \in CreatesOf(calls[q]) :
        (/\ p # q
         /\ req[p] = req[q]
         /\ calls[p][i].kind = calls[q][j].kind
         /\ ~IsFault(calls[p][i].r)
         /\ ~IsFault(calls[q][j].r))
          => /\ {calls[p][i].r, calls[q][j].r} = {Nil, AlreadyExists}
             /\ calls[p][i].key = calls[q][j].key
             /\ Present(TableOf(calls[p][i].kind), calls[p][i].key)
             /\ calls[p][i].r = Nil =>
                    TableOf(calls[p][i].kind)[calls[p][i].key] = calls[p][i].obj
             /\ calls[p][i].kind = "ConfigMap" =>
                    (pc[p] = "GetDep" \/ Len(calls[p]) > i)
             /\ (pc[p] = "done" /\ ~HadFault(calls[p])) => res[p] = Result(Nil)

C4_Witness ==
    \E p, q \in Workers :
        /\ p # q
        /\ pc[p] = "done" /\ pc[q] = "done"
        /\ res[p] = Result(Nil) /\ res[q] = Result(Nil)
        /\ Len(calls[p]) = 7 /\ Len(calls[q]) = 7
        /\ calls[p][4].r = Nil /\ calls[q][4].r = AlreadyExists
        /\ calls[p][7].r = AlreadyExists /\ calls[q][7].r = Nil

\* C5: a pass that created the ConfigMap and then failed, leaving no
\* Deployment, returned an error; and the pass that follows it for the same
\* identifier, with no failed call and nobody else writing, issues one
\* create, of the Deployment, which succeeds, leaves the ConfigMap as it
\* was, and returns a nil error.
C5_Resumes ==
    [][\A p \in Workers :
         /\ prev'[p].partial => prev'[p].res.err # Nil
         /\ (Returns(p) /\ prev[p].partial /\ prev[p].key = req[p] /\ prev'[p].clean)
               => /\ res'[p] = Result(Nil)
                  /\ \E j \in 1..Len(calls'[p]) :
                        /\ CreatesOf(calls'[p]) = {j}
                        /\ calls'[p][j].kind = "Deployment"
                        /\ calls'[p][j].r = Nil
                  /\ cms' = prev[p].snap[2]
                  /\ webs' = prev[p].snap[1]
                  /\ Present(cms', CMKeyOf(req[p]))
                  /\ Present(deps', DepKeyOf(req[p]))]_vars

C5_Witness ==
    \E p \in Workers :
        /\ pc[p] = "done"
        /\ prev[p].resumed
        /\ res[p] = Result(Nil)
        /\ Present(deps, DepKeyOf(req[p]))

\* C6: a call of a pass that fails (a fetch with another answer than
\* NotFound, a link that cannot be set, a create with another answer than
\* AlreadyExists) is the last call of that pass, and the pass returns the
\* empty result with exactly that error: nothing is fetched or created
\* after it, and the error is never nil.
C6_ShortCircuit ==
    \A p \in Workers : \A j \in 1..Len(calls[p]) :
        IsFault(calls[p][j].r)
          => /\ j = Len(calls[p])
             /\ pc[p] = "done"
             /\ res[p] = Result(calls[p][j].r)
             /\ res[p].err # Nil

C6_Witness ==
    \E p \in Workers :
        /\ pc[p] = "done"
        /\ Len(calls[p]) = 2
        /\ calls[p][2].kind = "ConfigMap"
        /\ calls[p][2].op = "Get"
        /\ IsFault(calls[p][2].r)
        /\ res[p].err = calls[p][2].r

OwnerOf(w) == [name |-> w.name, uid |-> w.uid]

\* an object the reconciler made for a Web that has existed
MadeFor(obj, k, derived) ==
    /\ obj.owner # NoOwner
    /\ obj.owner.uid \in 1..(nextUid - 1)
    /\ derived = k.name
    /\ Key(obj.namespace, obj.owner.name) \in WebKeys

\* C7: every create of a pass comes right after the link of the same
\* dependent was set without error; the object handed to the create is owned
\* by the Web the pass fetched (its name and uid) and lies in its namespace;
\* a link that fails ends the pass with that error and without the create.
\* So every object of the store that no other writer put there is owned by
\* a Web of the name it is derived from, in the same namespace.
C7_OwnedBeforeCreated ==
    /\ \A p \in Workers : \A j \in 1..Len(calls[p]) :
          /\ calls[p][j].op = "Create"
               => /\ j > 1
                  /\ calls[p][j - 1].op = "SetOwner"
                  /\ calls[p][j - 1].kind = calls[p][j].kind
                  /\ calls[p][j - 1].r = Nil
                  /\ calls[p][1].r = Nil
                  /\ calls[p][j].obj.owner = OwnerOf(calls[p][1].obj)
                  /\ calls[p][j].obj.namespace = calls[p][1].obj.namespace
          /\ (calls[p][j].op = "SetOwner" /\ calls[p][j].r # Nil)
               => /\ j = Len(calls[p])
                  /\ pc[p] = "done"
                  /\ res[p] = Result(calls[p][j].r)
    /\ \A k \in DOMAIN cms :
          Present(cms, k) => cms[k] = OtherCM(k) \/ MadeFor(cms[k], k, CMName(cms[k].owner.name))
    /\ \A k \in DOMAIN deps :
          Present(deps, k) => deps[k] = OtherDep(k) \/ MadeFor(deps[k], k, DepName(deps[k].owner.name))

C7_Witness ==
    \E p \in Workers :
        /\ pc[p] = "done"
        /\ Len(calls[p]) = 7
        /\ calls[p][7].r = Nil
        /\ Present(webs, req[p])
        /\ Present(cms, CMKeyOf(req[p]))
        /\ Present(deps, DepKeyOf(req[p]))
        /\ deps[DepKeyOf(req[p])].owner = OwnerOf(webs[req[p]])
        /\ cms[CMKeyOf(req[p])].owner = OwnerOf(webs[req[p]])

\* a step of worker p's pass
Acts(p) == calls'[p] # calls[p] /\ calls'[p] # <<>>

Kept(tbl, tbl2) ==
    \A k \in DOMAIN tbl : Present(tbl, k) => k \in DOMAIN tbl2 /\ tbl2[k] = tbl[k]

Added(tbl, tbl2) == {k \in DOMAIN tbl2 : ~Present(tbl, k) /\ Present(tbl2, k)}

\* C8: no step of a pass changes or removes an object of the store, a Web,
\* a ConfigMap or a Deployment, whatever the Web's spec has become since;
\* the one thing a step may do to the store is to add the one object handed
\* to a create that answered without error, under a key that held nothing.
C8_CreateOnly ==
    [][\A p \in Workers : Acts(p) =>
         /\ webs' = webs
         /\ nextUid' = nextUid
         /\ Kept(cms, cms')
         /\ Kept(deps, deps')
         /\ Added(cms, cms') \cup Added(deps, deps') # {} =>
               LET c == Last(calls'[p]) IN
               /\ c.op = "Create" /\ c.r = Nil
               /\ IF c.kind = "ConfigMap"
                    THEN Added(cms, cms') = {c.key} /\ cms'[c.key] = c.obj
                         /\ deps' = deps
                    ELSE Added(deps, deps') = {c.key} /\ deps'[c.key] = c.obj
                         /\ cms' = cms]_vars

C8_Witness ==
    \E p \in Workers :
        /\ pc[p] = "done"
        /\ res[p] = Result(Nil)
        /\ Len(calls[p]) = 3
        /\ Present(webs, req[p])
        /\ Present(cms, CMKeyOf(req[p]))
        /\ Present(deps, DepKeyOf(req[p]))
        /\ cms[CMKeyOf(req[p])].owner = OwnerOf(webs[req[p]])
        /\ deps[DepKeyOf(req[p])].owner = OwnerOf(webs[req[p]])
        /\ cms[CMKeyOf(req[p])].data # <<"index.html", webs[req[p]].htmlContent>>
        /\ deps[DepKeyOf(req[p])].containers[1].image # webs[req[p]].image
        /\ calls[p][1].obj = webs[req[p]]

BothExist(k) == Present(cms, CMKeyOf(k)) /\ Present(deps, DepKeyOf(k))
NoneExists(k) == ~Present(cms, CMKeyOf(k)) /\ ~Present(deps, DepKeyOf(k))

\* C9, as stated: in every state each dependent exists exactly when its Web
\* does.
C9_ExistsIffWebExists ==
    \A k \in OneWeb :
        /\ Present(cms, CMKeyOf(k)) <=> Present(webs, k)
        /\ Present(deps, DepKeyOf(k)) <=> Present(webs, k)

\* C9, amended: with the user, the reconciler and the garbage collector the
\* only writers, a Web that stays leads to both dependents staying, and a
\* Web that stays away leads to both dependents staying away.
C9_ExistsIffWebExistsInTheEnd ==
    \A k \in OneWeb :
        /\ <>[]Present(webs, k) => <>[]BothExist(k)
        /\ <>[](~Present(webs, k)) => <>[]NoneExists(k)

C9_Witness ==
    \E p \in Workers :
        /\ pc[p] = "done"
        /\ ~Present(webs, req[p])
        /\ NoneExists(req[p])
        /\ nextUid > 1
        /\ Len(calls[p]) = 7
        /\ calls[p][4].r = Nil
        /\ calls[p][7].r = Nil

\* a pass for the Web k has returned a nil error
Succeeded(k) ==
    \E p \in Solo : /\ pc[p] = "done" /\ res[p] = Result(Nil)
                     /\ req[p] = k /\ Present(webs, k)

\* C10: when the Web stays, a pass for it returns a nil error at a point from
\* which both dependents exist for good, and from some point on no pass
\* returns an error.
C10_Converges ==
    \A k \in OneWeb :
        <>[]Present(webs, k)
          => /\ <>(Succeeded(k) /\ []BothExist(k))
             /\ <>[](\A p \in Solo : pc[p] = "done" => res[p] = Result(Nil))

C10_Witness ==
    \E p \in Solo :
        /\ pc[p] = "done"
        /\ res[p] = Result(Nil)
        /\ faults = MaxFaults
        /\ Present(webs, req[p])
        /\ BothExist(req[p])
        /\ cms[CMKeyOf(req[p])].owner.uid = webs[req[p]].uid
        /\ deps[DepKeyOf(req[p])].owner.uid = webs[req[p]].uid

\* the Web w with its replica count and port blanked
Unsized(w) == [w EXCEPT !.size = 0, !.containerPort = 0]

\* what a pass hands to the create of a dependent of the Web w
Desired(kind, w) ==
    IF kind = "ConfigMap"
      THEN SetControllerReference(w, NewCM(w))
      ELSE SetControllerReference(w, NewDep(w, NewCM(w)))

\* C11: what a pass hands to a create is what it would hand to it for the
\* same Web with the replica count and the port blanked, so two Webs that
\* differ in those alone get the same dependents; the Deployment has no
\* replica count; and what a pass returns is decided by the answers to its
\* calls: nil, or the one failure.
C11_SizeNotPropagated ==
    \A p \in Workers :
        /\ \A j \in CreatesOf(calls[p]) :
              /\ calls[p][j].obj = Desired(calls[p][j].kind, Unsized(calls[p][1].obj))
              /\ "replicas" \notin DOMAIN calls[p][j].obj
              /\ calls[p][j].r = Nil =>
                    calls[p][j].key = Key(calls[p][j].obj.namespace, calls[p][j].obj.name)
        /\ pc[p] = "done" =>
              res[p] = Result(IF HadFault(calls[p]) THEN Last(calls[p]).r ELSE Nil)

C11_Witness ==
    \E p \in Workers :
        /\ pc[p] = "done"
        /\ res[p] = Result(Nil)
        /\ Len(calls[p]) = 7
        /\ calls[p][1].obj.size = 2
        /\ calls[p][1].obj.containerPort = 8080
        /\ calls[p][7].r = Nil
        /\ deps[DepKeyOf(req[p])] = calls[p][7].obj

\* C12: the ConfigMap a pass creates for the Web n in ns with content h and
\* image i is n-cm in ns with the one entry index.html -> h; the Deployment
\* is ndeployment in ns, selects and labels app: n, has one container, of
\* image i, which mounts at /app the one volume, whose source is n-cm; and
\* while nobody else writes, the store holds the ConfigMap as it was created.
\* For the Web site the names are site-cm and sitedeployment.
C12_DesiredShape ==
    /\ CMName("site") = "site-cm"
    /\ DepName("site") = "sitedeployment"
    /\ \A p \in Workers : \A j \in CreatesOf(calls[p]) :
          LET w == calls[p][1].obj
              o == calls[p][j].obj
          IN
          /\ o.namespace = w.namespace
          /\ calls[p][j].kind = "ConfigMap" =>
                /\ o.kind = "ConfigMap"
                /\ o.name = w.name \o "-cm"
                /\ o.data = <<"index.html", w.htmlContent>>
          /\ calls[p][j].kind = "Deployment" =>
                /\ o.kind = "Deployment"
                /\ o.name = w.name \o "deployment"
                /\ o.selector = <<"app", w.name>>
                /\ o.labels = <<"app", w.name>>
                /\ Len(o.containers) = 1
                /\ o.containers[1].image = w.image
                /\ Len(o.containers[1].volumeMounts) = 1
                /\ o.containers[1].volumeMounts[1].mountPath = "/app"
                /\ Len(o.volumes) = 1
                /\ o.volumes[1].configMap = w.name \o "-cm"
                /\ o.volumes[1].name = o.containers[1].volumeMounts[1].name
          /\ (calls[p][j].r = Nil /\ calls[p][j].kind = "ConfigMap" /\ quiet[p]) =>
                cms[Key(w.namespace, w.name \o "-cm")] = o

C12_Witness ==
    \E p \in Workers :
        /\ pc[p] = "done"
        /\ res[p] = Result(Nil)
        /\ Len(calls[p]) = 7
        /\ calls[p][2].r = NotFound
        /\ calls[p][5].r = NotFound
        /\ calls[p][4].r = Nil
        /\ calls[p][7].r = Nil
        /\ calls[p][1].obj.htmlContent = "h2"
        /\ calls[p][1].obj.image = "i1"
        /\ Present(cms, CMKeyOf(req[p]))
        /\ cms[CMKeyOf(req[p])].data = <<"index.html", "h2">>
        /\ Present(deps, DepKeyOf(req[p]))
        /\ deps[DepKeyOf(req[p])].containers[1].image = "i1"
        /\ deps[DepKeyOf(req[p])].volumes[1].configMap = "x-cm"

\* log2 is log with calls added at its end
Extends(log2, log) ==
    /\ Len(log2) >= Len(log)
    /\ \A i \in 1..Len(log) : log2[i] = log[i]

\* C13: within a pass no store operation is attempted twice: the pass's log
\* has at most one call of each operation on each kind of object, so at most
\* one create of the ConfigMap, one of the Deployment and two writes in all,
\* and nothing follows a call that failed; the log only grows during a pass,
\* and a call is attempted again only after the scheduler has handed the
\* queued identifier to the worker for a new pass.
C13_NoLocalRetry ==
    [][\A p \in Workers :
          LET log == calls'[p] IN
          /\ \A i, j \in 1..Len(log) :
                (log[i].op = log[j].op /\ log[i].kind = log[j].kind) => i = j
          /\ Cardinality(CreatesOf(log)) <= 2
          /\ \A i \in 1..Len(log) : IsFault(log[i].r) => i = Len(log)
          /\ ~Extends(log, calls[p]) =>
                /\ log = <<>>
                /\ pc[p] = "done"
                /\ pc'[p] = "GetWeb"
                /\ req'[p] \in pending
          /\ (pc'[p] = "done" /\ HadFault(log)) => req'[p] \in pending'
    ]_vars

\* a pass whose create of the Deployment failed has returned the error after
\* one create of each kind, and its identifier is queued for a new pass
C13_Witness ==
    \E p \in Workers :
        /\ pc[p] = "done"
        /\ Len(calls[p]) = 7
        /\ Cardinality(CreatesOf(calls[p])) = 2
        /\ calls[p][4].r = Nil
        /\ IsFault(calls[p][7].r)
        /\ res[p] = Result(calls[p][7].r)
        /\ req[p] \in pending

\* the states of a pass: 1 fetching the Web, 2 reconciling the ConfigMap,
\* 3 reconciling the Deployment, 4 returned; 0 before the first pass
Phase(label) ==
    CASE label = "GetWeb" -> 1
      [] label \in {"GetCM", "CreateCM"} -> 2
      [] label \in {"GetDep", "CreateDep"} -> 3
      [] label = "done" -> 4
      [] OTHER -> 0

InPass(p) == Phase(pc[p]) \in 1..3

\* C14: a pass starts by fetching the Web; an absent Web ends it with a nil
\* error, a present one leads to the ConfigMap, then to the Deployment, then
\* to the end, and from each of the three a failed call ends the pass with
\* that error; no state is entered twice or passed over. A pass that has not
\* returned has no outcome; one that returned has the empty result (no
\* requeue, no requeue-after) with a nil error or the error of its failed
\* call. Every pass returns.
C14_PassStateMachine ==
    /\ [][\A p \in Workers : pc'[p] # pc[p] =>
             /\ ~InPass(p) => pc'[p] = "GetWeb" /\ calls'[p] = <<>>
             /\ pc'[p] # "done" => res'[p] = NoResult
             /\ (InPass(p) /\ pc'[p] # "done") =>
                   /\ ~HadFault(calls'[p])
                   /\ \/ pc[p] = "GetWeb" /\ pc'[p] = "GetCM"
                            /\ Last(calls'[p]).kind = "Web" /\ Last(calls'[p]).r = Nil
                      \/ pc[p] = "GetCM" /\ pc'[p] = "CreateCM"
                      \/ pc[p] \in {"GetCM", "CreateCM"} /\ pc'[p] = "GetDep"
                      \/ pc[p] = "GetDep" /\ pc'[p] = "CreateDep"
             /\ (InPass(p) /\ pc'[p] = "done") =>
                   /\ res'[p].requeue = FALSE
                   /\ res'[p].requeueAfter = 0
                   /\ \/ /\ res'[p].err = Nil
                         /\ ~HadFault(calls'[p])
                         /\ \/ pc[p] = "GetWeb" /\ Last(calls'[p]).r = NotFound
                            \/ Phase(pc[p]) = 3
                      \/ /\ IsFault(res'[p].err)
                         /\ res'[p].err = Last(calls'[p]).r
       ]_vars
    /\ \A p \in Solo : InPass(p) ~> pc[p] = "done"

\* a pass went through the three states in order and returned the empty
\* result with a nil error
C14_Witness ==
    \E p \in Solo :
        /\ pc[p] = "done"
        /\ res[p] = [requeue |-> FALSE, requeueAfter |-> 0, err |-> Nil]
        /\ [j \in 1..Len(calls[p]) |-> calls[p][j].kind] =
              <<"Web", "ConfigMap", "ConfigMap", "ConfigMap",
                "Deployment", "Deployment", "Deployment">>

\* the object under key k of tbl, if there is one, is owned by the Web w
LinkedTo(tbl, k, w) == Present(tbl, k) => tbl[k].owner = OwnerOf(w)

\* C15, as stated: when a pass that fetched the Web returns a nil error, the
\* ConfigMap <name>-cm and the Deployment <name>deployment the store holds
\* are each owned by the Web as that pass fetched it, whatever happened
\* before the pass.
C15_OwnedAfterSuccess ==
    [][\A p \in Workers :
          (Returns(p) /\ res'[p] = Result(Nil) /\ calls'[p][1].r = Nil) =>
              /\ LinkedTo(cms', CMKeyOf(req[p]), calls'[p][1].obj)
              /\ LinkedTo(deps', DepKeyOf(req[p]), calls'[p][1].obj)
    ]_vars

\* the ways a pass can have established the dependent of a kind
Observed(log, kind) ==
    \E i \in 1..Len(log) : log[i].kind = kind /\ log[i].op = "Get" /\ log[i].r = Nil
Created(log, kind) ==
    \E i \in 1..Len(log) : log[i].kind = kind /\ log[i].op = "Create" /\ log[i].r = Nil
Lost(log, kind) ==
    \E i \in 1..Len(log) :
        log[i].kind = kind /\ log[i].op = "Create" /\ log[i].r = AlreadyExists

\* C16: a pass that fetched the Web and returned a nil error has, for the
\* ConfigMap and for the Deployment, fetched it, created it or been answered
\* AlreadyExists by its create; and, nothing being deleted, <name>-cm and
\* <name>deployment are both in the store once it has returned.
C16_SuccessEstablishedBoth ==
    \A p \in Workers :
        (pc[p] = "done" /\ res[p] = Result(Nil) /\ calls[p][1].r = Nil) =>
            /\ \A kind \in {"ConfigMap", "Deployment"} :
                  \/ Observed(calls[p], kind)
                  \/ Created(calls[p], kind)
                  \/ Lost(calls[p], kind)
            /\ Present(cms, Key(req[p].namespace, req[p].name \o "-cm"))
            /\ Present(deps, Key(req[p].namespace, req[p].name \o "deployment"))

\* a pass returned a nil error having found the ConfigMap on fetch and
\* having lost the create of the Deployment to the other worker
C16_Witness ==
    \E p \in Workers :
        /\ pc[p] = "done"
        /\ res[p] = Result(Nil)
        /\ Len(calls[p]) = 5
        /\ Observed(calls[p], "ConfigMap")
        /\ Lost(calls[p], "Deployment")
        /\ BothExist(req[p])

\* the dependents of the Web under k that are in the store are that Web's
Own(k) ==
    /\ LinkedTo(cms, CMKeyOf(k), webs[k])
    /\ LinkedTo(deps, DepKeyOf(k), webs[k])

\* the keys of the dependents that the calls of log name
Touched(log) == {log[j].key : j \in 2..Len(log)}

\* C17: of two Webs of different names in a namespace, x, xdeployment and
\* x-cm among them, the ConfigMaps have different names and so have the
\* Deployments; whatever the interleaving of the passes, a pass names in its
\* calls only the two dependents of its own Web, what it has fetched or
\* built as its ConfigMap or Deployment is owned by its own Web, every
\* dependent in the store is owned by the Web its name derives from, and
\* every Web ends with its ConfigMap and its Deployment, owned by it.
C17_NoCrossWebInterference ==
    /\ [](\A a, b \in WebNames :
            a # b => CMName(a) # CMName(b) /\ DepName(a) # DepName(b))
    /\ [](\A p, q \in Workers :
            /\ Touched(calls[p]) \subseteq {CMKeyOf(req[p]), DepKeyOf(req[p])}
            /\ (req[p] # req[q]) => Touched(calls[p]) \cap Touched(calls[q]) = {}
            /\ (InPass(p) /\ cm[p] # EmptyCM) =>
                  cm[p].name = CMName(req[p].name) /\ cm[p].owner.name \in {"", req[p].name}
            /\ (InPass(p) /\ dep[p] # EmptyDep) =>
                  dep[p].name = DepName(req[p].name) /\ dep[p].owner.name \in {"", req[p].name})
    /\ [](\A k \in WebKeys : Present(webs, k) => Own(k))
    /\ \A k \in WebKeys : Present(webs, k) ~> [](BothExist(k) /\ Own(k))

\* the Webs x and xdeployment both have their own two dependents, after
\* passes of the two workers that ran at the same time
C17_Witness ==
    /\ BothExist(Key("ns", "x")) /\ Own(Key("ns", "x"))
    /\ BothExist(Key("ns", "xdeployment")) /\ Own(Key("ns", "xdeployment"))
    /\ deps[Key("ns", "xdeployment")].owner.name = "x"
    /\ \E p, q \in Workers :
          /\ req[p] = Key("ns", "x") /\ req[q] = Key("ns", "xdeployment")
          /\ pc[p] = "done" /\ pc[q] = "done"
          /\ Len(calls[p]) = 7 /\ Len(calls[q]) = 7
====
